---------------------------- MODULE Spec2Model ----------------------------
(***************************************************************************)
(* Model of the two table transformations of CLIF_VAP_onset_prediction:    *)
(*   - find_intubation_times (src/src/helper.py): the DuckDB range-window  *)
(*     query over the ventilator table;                                    *)
(*   - stitch_icu_stays (src/src/icu_stitching.py): the pandas pipeline    *)
(*     that groups consecutive ICU/stepdown segments.                      *)
(* A DataFrame is a sequence of records (its rows in positional order).    *)
(* Timestamps are integers counted in hours; NaT is the null timestamp.    *)
(***************************************************************************)
EXTENDS Integers, Sequences, FiniteSets

VARIABLES
    adt_df,          \* stitch_icu_stays: the input frame
    gap_hours,       \* stitch_icu_stays: the merge threshold
    icu_adt,         \* stitch_icu_stays: the frame icu_adt after Step 2
    icu_block,       \* stitch_icu_stays: the frame icu_block after Step 5
    icu_df,          \* stitch_icu_stays: the frame icu_df after the merge
    icu_adt_final,   \* stitch_icu_stays: the returned frame
    vent,            \* find_intubation_times: the input frame
    time_window,     \* find_intubation_times: the window half-width
    result,          \* find_intubation_times: the returned frame
    pc               \* "stitch" / "scan" before the call, "done" after it

vars ==
    <<adt_df, gap_hours, icu_adt, icu_block, icu_df, icu_adt_final,
      vent, time_window, result, pc>>

(***************************************************************************)
(* Bounds of the model.                                                    *)
(***************************************************************************)
\* longest ADT table of the general input family
MaxRows == 2

\* latest timestamp (hours)
MaxTime == 2

\* largest gap_hours
MaxGapHours == 1

\* longest ventilator table of the general input family
MaxVentRows == 2

\* largest time_window
MaxWindow == 1

\* pandas' null timestamp (NaT) and null object (None/NaN)
NaT == -1

None == "None"

(***************************************************************************)
(* Generic frame helpers.                                                  *)
(***************************************************************************)
\* pd.DataFrame(rows): the frame holding the given rows, in positional order.
DataFrame(rows) == SubSeq(rows, 1, Len(rows))

\* A local variable: Value({F(x) : x \in {e}}) evaluates e once, binds it to
\* x and gives F(x).
Value(S) == CHOOSE y \in S : TRUE

\* The tuple of the columns named in by, of row r.
KeyOf(r, by) == [k \in 1..Len(by) |-> r[by[k]]]

\* Strict lexicographic order of two key tuples of the same length.
LexLt(a, b) ==
    \E i \in 1..Len(a) : a[i] < b[i] /\ \A j \in 1..(i - 1) : a[j] = b[j]

\* DataFrame.sort_values(by=[...]) on several key columns: a stable
\* lexicographic sort.
SortValues(s, by) ==
    LET n == Len(s)
        pos(i) == Cardinality({j \in 1..n : LexLt(KeyOf(s[j], by), KeyOf(s[i], by))})
                  + Cardinality({j \in 1..i : KeyOf(s[j], by) = KeyOf(s[i], by)})
    IN  DataFrame([p \in 1..n |-> s[CHOOSE i \in 1..n : pos(i) = p]])

\* DataFrame.drop_duplicates(): keep the first occurrence of each row.
DropDuplicates(s) ==
    LET F[i \in 0..Len(s)] ==
            IF i = 0 THEN <<>>
            ELSE IF \E j \in 1..(i - 1) : s[j] = s[i]
                 THEN F[i - 1]
                 ELSE Append(F[i - 1], s[i])
    IN  F[Len(s)]

\* groupby(keys).ngroup() + 1 for row i: the groups are numbered in sorted
\* key order over the whole frame.
NGroup(s, by, i) ==
    1 + Cardinality({KeyOf(s[j], by) :
            j \in {k \in 1..Len(s) : LexLt(KeyOf(s[k], by), KeyOf(s[i], by))}})

\* Variant of DenseRank: the rank inside the encounter is left out.
DenseRankOmitted(s, val, i) == val[i]

\* groupby('encounter_block')[col].rank(method='dense').astype(int) for
\* row i, col being the column val over the row positions.
DenseRank(s, val, i) ==
    Cardinality({val[j] : j \in {k \in 1..Len(s) :
                    /\ s[k].encounter_block = s[i].encounter_block
                    /\ val[k] <= val[i]}})

\* The column groupby(keys).ngroup() + 1 followed by the dense rank of it
\* inside each encounter_block.
RankColumn(s, by) ==
    Value({DataFrame([i \in 1..Len(s) |-> DenseRank(s, ng, i)]) :
           ng \in {DataFrame([i \in 1..Len(s) |-> NGroup(s, by, i)])}})

(***************************************************************************)
(* stitch_icu_stays                                                        *)
(***************************************************************************)
\* str.lower() on the location categories of the model.
Lower(c) ==
    CASE c = "ICU" -> "icu"
      [] c = "Stepdown" -> "stepdown"
      [] c = "Ward" -> "ward"
      [] OTHER -> c

\* Step 1: icu_mask / icu_adt_df
IcuMask(r) == Lower(r.location_category) \in {"icu", "stepdown"}

\* The key columns of the sorts and groupings.
KeyEncIn == <<"encounter_block", "in_dttm">>

KeyEncRank == <<"encounter_block", "icu_rank">>

KeyEncGroup == <<"encounter_block", "icu_group">>

KeyEncRankGroup == <<"encounter_block", "icu_rank", "icu_group">>

\* Step 2: the column icu_rank added to the sorted frame s
WithInitialRank(s) ==
    Value({DataFrame([i \in 1..Len(s) |->
              [encounter_block |-> s[i].encounter_block,
               in_dttm |-> s[i].in_dttm,
               out_dttm |-> s[i].out_dttm,
               location_category |-> s[i].location_category,
               location_type |-> s[i].location_type,
               icu_rank |-> rk[i]]]) :
           rk \in {RankColumn(s, KeyEncIn)}})

\* Steps 1 and 2: filter, sort, initial ICU ranking
InitialRank(df) ==
    Value({WithInitialRank(sorted) :
           sorted \in {SortValues(icu_adt_df, KeyEncIn) :
                       icu_adt_df \in {SelectSeq(df, IcuMask)}}})

\* Step 3: prepare ICU block data
PrepareBlock(adt) ==
    Value({SortValues(d, KeyEncRank) : d \in {DropDuplicates(adt)}})

\* Variant of NextInDttm: shift(-1) over the whole frame, without groupby.
NextInDttmUngrouped(s, i) == IF i < Len(s) THEN s[i + 1].in_dttm ELSE NaT

\* Step 4: groupby("encounter_block")["in_dttm"].shift(-1)
NextInDttm(s, i) ==
    LET later == {j \in (i + 1)..Len(s) : s[j].encounter_block = s[i].encounter_block}
    IN  IF later = {} THEN NaT
        ELSE s[CHOOSE j \in later : \A k \in later : j <= k].in_dttm

\* (next_in_dttm - out_dttm) in hours; <<>> stands for NaN.
OutToNextIcuHrs(next_in, out) ==
    IF next_in = NaT \/ out = NaT THEN <<>> ELSE <<next_in - out>>

\* Variant of Linked: a gap equal to the threshold links too.
LinkedLe(gap, g) == gap # <<>> /\ gap[1] <= g

\* Step 5: a comparison with NaN is False.
Linked(gap, g) == gap # <<>> /\ gap[1] < g

\* Steps 4 and 5: the columns next_in_dttm, out_to_next_icu_hrs, linked6hrs
WithLinked(blk, g) ==
    DataFrame([i \in 1..Len(blk) |->
        [encounter_block |-> blk[i].encounter_block,
         in_dttm |-> blk[i].in_dttm,
         out_dttm |-> blk[i].out_dttm,
         location_category |-> blk[i].location_category,
         location_type |-> blk[i].location_type,
         icu_rank |-> blk[i].icu_rank,
         next_in_dttm |-> NextInDttm(blk, i),
         out_to_next_icu_hrs |->
             OutToNextIcuHrs(NextInDttm(blk, i), blk[i].out_dttm),
         linked6hrs |->
             Linked(OutToNextIcuHrs(NextInDttm(blk, i), blk[i].out_dttm), g),
         icu_group |-> 0]])

\* group.where(~linked).bfill().ffill() inside one encounter; the seed of
\* row j is its position j (index + 1).  0 stands for a value left NaN.
FillGroup(s, i) ==
    LET same == {j \in 1..Len(s) : s[j].encounter_block = s[i].encounter_block}
        after == {j \in same : j >= i /\ ~s[j].linked6hrs}
        before == {j \in same : j <= i /\ ~s[j].linked6hrs}
    IN  IF after # {} THEN CHOOSE j \in after : \A k \in after : j <= k
        ELSE IF before # {} THEN CHOOSE j \in before : \A k \in before : j >= k
        ELSE 0

\* Initialize and update ICU groups
WithGroup(s) ==
    DataFrame([i \in 1..Len(s) |-> [s[i] EXCEPT !.icu_group = FillGroup(s, i)]])

\* Steps 4 and 5 on the frame of Step 3
LinkBlock(blk, g) ==
    Value({WithGroup(sorted) :
           sorted \in {SortValues(b4, KeyEncRank) : b4 \in {WithLinked(blk, g)}}})

\* Aggregate by ICU group: the member rows of row i's group.
Members(s, i) ==
    {j \in 1..Len(s) : KeyOf(s[j], KeyEncGroup) = KeyOf(s[i], KeyEncGroup)}

\* aggfunc='min' (in_dttm)
AggMin(s, m) ==
    LET v == {s[j].in_dttm : j \in m} \ {NaT}
    IN  IF v = {} THEN NaT ELSE CHOOSE x \in v : \A y \in v : x <= y

\* aggfunc='max' (out_dttm): null values are skipped
AggMax(s, m) ==
    LET v == {s[j].out_dttm : j \in m} \ {NaT}
    IN  IF v = {} THEN NaT ELSE CHOOSE x \in v : \A y \in v : x >= y

\* Variant of AggLast: aggfunc='first'.
AggFirst(s, m) ==
    LET v == {j \in m : s[j].location_type # None}
    IN  IF v = {} THEN None
        ELSE s[CHOOSE j \in v : \A k \in v : j <= k].location_type

\* aggfunc='last' (location_type): the last non-null value in row order
AggLast(s, m) ==
    LET v == {j \in m : s[j].location_type # None}
    IN  IF v = {} THEN None
        ELSE s[CHOOSE j \in v : \A k \in v : j >= k].location_type

\* icu_block2 merged back on the rows of icu_block (how="left")
MergeBack(s) ==
    DataFrame([i \in 1..Len(s) |->
        [encounter_block |-> s[i].encounter_block,
         icu_group |-> s[i].icu_group,
         icu_rank |-> s[i].icu_rank,
         in_dttm |-> AggMin(s, Members(s, i)),
         out_dttm |-> AggMax(s, Members(s, i)),
         location_type |-> AggLast(s, Members(s, i))]])

\* Step 6: the column icu_rank replaced on the sorted frame s
WithFinalRank(s) ==
    Value({DataFrame([i \in 1..Len(s) |-> [s[i] EXCEPT !.icu_rank = rk[i]]]) :
           rk \in {RankColumn(s, KeyEncGroup)}})

\* Step 6: update ICU rank by ICU group
FinalRank(df) ==
    Value({WithFinalRank(sorted) : sorted \in {SortValues(df, KeyEncRankGroup)}})

\* The frame icu_block of a call on (df, g)
IcuBlockOf(df, g) ==
    Value({LinkBlock(b, g) : b \in {PrepareBlock(a) : a \in {InitialRank(df)}}})

\* The frame a call on (df, g) returns
Stitched(df, g) ==
    Value({FinalRank(m) : m \in {MergeBack(b) : b \in {IcuBlockOf(df, g)}}})

(***************************************************************************)
(* Inputs of stitch_icu_stays.  patient_id and hospitalization_id are read *)
(* by drop_duplicates only; location_type stands for the columns that can *)
(* tell two segments with the same interval apart.  in_dttm is not null.   *)
(***************************************************************************)
Encounters == {1, 2}

Times == 0..MaxTime

LocationTypes == {"a", "b"}

Intervals == {iv \in Times \X Times : iv[1] <= iv[2]}

AdtRow(e, i, o, c, ty) ==
    [encounter_block |-> e, in_dttm |-> i, out_dttm |-> o,
     location_category |-> c, location_type |-> ty]

\* General family: ICU segments of both encounters (those of encounter 1
\* of either location type) and one ward row per encounter.
GeneralAdtRows ==
    {AdtRow(1, iv[1], iv[2], "ICU", ty) : iv \in Intervals, ty \in LocationTypes}
    \cup {AdtRow(2, iv[1], iv[2], "ICU", "a") : iv \in Intervals}
    \cup {AdtRow(e, 0, 0, "Ward", "a") : e \in Encounters}

\* Long family: one more segment, all of one encounter and one type,
\* starting at one of the first two instants.
LongAdtRows ==
    {AdtRow(1, iv[1], iv[2], "icu", "a") : iv \in {x \in Intervals : x[1] <= 1}}

\* Null family: segments whose out_dttm or location_type may be null.
NullAdtRows ==
    {AdtRow(1, i, o, "Stepdown", ty) :
        i \in Times, o \in {NaT, MaxTime}, ty \in {None, "a"}}

\* Point family: zero-length segments of both encounters.
PointAdtRows == {AdtRow(e, i, i, "ICU", "a") : e \in Encounters, i \in Times}

InitStitch ==
    /\ \/ \E n \in 0..MaxRows : adt_df \in [1..n -> GeneralAdtRows]
       \/ \E n \in 0..(MaxRows + 1) : adt_df \in [1..n -> LongAdtRows]
       \/ \E n \in 0..MaxRows : adt_df \in [1..n -> NullAdtRows]
       \/ \E n \in 0..(MaxRows + 1) : adt_df \in [1..n -> PointAdtRows]
    /\ gap_hours \in 0..MaxGapHours
    /\ icu_adt = <<>>
    /\ icu_block = <<>>
    /\ icu_df = <<>>
    /\ icu_adt_final = <<>>
    /\ vent = <<>>
    /\ time_window = 0
    /\ result = <<>>
    /\ pc = "stitch"

StitchIcuStays ==
    /\ pc = "stitch"
    /\ icu_adt' = InitialRank(adt_df)
    /\ icu_block' = Value({LinkBlock(b, gap_hours) : b \in {PrepareBlock(icu_adt')}})
    /\ icu_df' = MergeBack(icu_block')
    /\ icu_adt_final' = FinalRank(icu_df')
    /\ pc' = "done"
    /\ UNCHANGED <<adt_df, gap_hours, vent, time_window, result>>

NextStitch == StitchIcuStays

SpecStitch == InitStitch /\ [][NextStitch]_vars

(***************************************************************************)
(* find_intubation_times                                                   *)
(***************************************************************************)
\* Variant of WindowFrame: the frame ends are excluded (an open interval).
WindowFrameOpen(v, w, i) ==
    {j \in 1..Len(v) :
        /\ v[j].encounter_block = v[i].encounter_block
        /\ \/ j = i
           \/ /\ v[j].recorded_dttm > v[i].recorded_dttm - w
              /\ v[j].recorded_dttm < v[i].recorded_dttm + w}

\* Variant of WindowFrame: PRECEDING and FOLLOWING exchanged.
WindowFrameSwapped(v, w, i) ==
    {j \in 1..Len(v) :
        /\ v[j].encounter_block = v[i].encounter_block
        /\ v[j].recorded_dttm >= v[i].recorded_dttm + w
        /\ v[j].recorded_dttm <= v[i].recorded_dttm - w}

\* RANGE BETWEEN INTERVAL w PRECEDING AND INTERVAL w FOLLOWING, inside
\* PARTITION BY encounter_block ORDER BY recorded_dttm: the frame of row i.
WindowFrame(v, w, i) ==
    {j \in 1..Len(v) :
        /\ v[j].encounter_block = v[i].encounter_block
        /\ v[j].recorded_dttm >= v[i].recorded_dttm - w
        /\ v[j].recorded_dttm <= v[i].recorded_dttm + w}

\* MAX(...) OVER (frame) of the values the CASE expression takes on the
\* rows of the frame: the values are 0 and 1, so the maximum is 1 exactly
\* when some row of the frame gives 1.
MaxOver(cases) == IF 1 \in cases THEN 1 ELSE 0

CaseImv(r) == IF r.device_category = "IMV" THEN 1 ELSE 0

CaseMode(r) == IF r.mode_category # None THEN 1 ELSE 0

CaseFio2(r) == IF r.fio2_set # None THEN 1 ELSE 0

CasePeep(r) == IF r.peep_set # None THEN 1 ELSE 0

\* the CTE time_windows: one row per row of vent_data
TimeWindows(v, w) ==
    DataFrame([i \in 1..Len(v) |->
        [encounter_block |-> v[i].encounter_block,
         recorded_dttm |-> v[i].recorded_dttm,
         has_imv_in_window |-> MaxOver({CaseImv(v[j]) : j \in WindowFrame(v, w, i)}),
         has_mode_in_window |-> MaxOver({CaseMode(v[j]) : j \in WindowFrame(v, w, i)}),
         has_fio2_in_window |-> MaxOver({CaseFio2(v[j]) : j \in WindowFrame(v, w, i)}),
         has_peep_in_window |-> MaxOver({CasePeep(v[j]) : j \in WindowFrame(v, w, i)})]])

\* WHERE has_imv_in_window = 1 AND ... AND has_peep_in_window = 1
Where(r) ==
    /\ r.has_imv_in_window = 1
    /\ r.has_mode_in_window = 1
    /\ r.has_fio2_in_window = 1
    /\ r.has_peep_in_window = 1

\* the select list: encounter_block, recorded_dttm
Project(s) ==
    DataFrame([i \in 1..Len(s) |->
        [encounter_block |-> s[i].encounter_block,
         recorded_dttm |-> s[i].recorded_dttm]])

\* Variant of Distinct: SELECT without DISTINCT.
DistinctAll(s) == s

\* SELECT DISTINCT
Distinct(s) == DropDuplicates(s)

KeyEncRecorded == <<"encounter_block", "recorded_dttm">>

\* ORDER BY encounter_block, recorded_dttm
OrderBy(s) == SortValues(s, KeyEncRecorded)

\* the filtered, projected rows of the CTE
SelectFrom(tw) == Value({Project(f) : f \in {SelectSeq(tw, Where)}})

Query(v, w) ==
    Value({OrderBy(d) :
           d \in {Distinct(sel) :
                  sel \in {SelectFrom(tw) : tw \in {TimeWindows(v, w)}}}})

(***************************************************************************)
(* Inputs of find_intubation_times.  vent_data is a relation: the query    *)
(* reads it through window frames, DISTINCT and ORDER BY, none of which    *)
(* depends on the order of its rows, so one frame per multiset of rows is  *)
(* drawn, its rows in descending order.  recorded_dttm is not null.        *)
(***************************************************************************)
VentRow(e, t, d, m, f, p) ==
    [encounter_block |-> e, recorded_dttm |-> t, device_category |-> d,
     mode_category |-> m, fio2_set |-> f, peep_set |-> p]

VentOrd(r) ==
    r.encounter_block * 1000 + r.recorded_dttm * 16
    + CaseImv(r) * 8 + CaseMode(r) * 4 + CaseFio2(r) * 2 + CasePeep(r)

Descending(v) == \A i \in 1..(Len(v) - 1) : VentOrd(v[i]) >= VentOrd(v[i + 1])

\* General family: one encounter, every combination of the four signals.
GeneralVentRows ==
    {VentRow(1, t, d, m, f, p) :
        t \in Times, d \in {"IMV", "NIPPV"}, m \in {None, "ac"},
        f \in {None, "40"}, p \in {None, "5"}}

\* Two-encounter family: rows that carry the device only, the three
\* settings only, or all four signals.
PairedVentRows ==
    {VentRow(e, t, sg[1], sg[2], sg[3], sg[4]) :
        e \in Encounters, t \in Times,
        sg \in {<<"IMV", None, None, None>>, <<"NIPPV", "ac", "40", "5">>,
                <<"IMV", "ac", "40", "5">>}}

\* Four-row family: the device, the mode, the FiO2 and the PEEP are each
\* documented by a row of its own.
FourRowTables ==
    {<<VentRow(1, t[1], "IMV", None, None, None),
       VentRow(1, t[2], "NIPPV", "ac", None, None),
       VentRow(1, t[3], "NIPPV", None, "40", None),
       VentRow(1, t[4], "NIPPV", None, None, "5")>> :
        t \in Times \X Times \X Times \X Times}

InitScan ==
    /\ \/ \E n \in 0..MaxVentRows :
            vent \in [1..n -> GeneralVentRows] /\ Descending(vent)
       \/ \E n \in 0..(MaxVentRows + 1) :
            vent \in [1..n -> PairedVentRows] /\ Descending(vent)
       \/ vent \in FourRowTables
    /\ time_window \in 0..MaxWindow
    /\ result = <<>>
    /\ adt_df = <<>>
    /\ gap_hours = 0
    /\ icu_adt = <<>>
    /\ icu_block = <<>>
    /\ icu_df = <<>>
    /\ icu_adt_final = <<>>
    /\ pc = "scan"

FindIntubationTimes ==
    /\ pc = "scan"
    /\ result' = Query(vent, time_window)
    /\ pc' = "done"
    /\ UNCHANGED <<vent, time_window, adt_df, gap_hours, icu_adt, icu_block, icu_df, icu_adt_final>>

NextScan == FindIntubationTimes

SpecScan == InitScan /\ [][NextScan]_vars

(***************************************************************************)
(* Properties of find_intubation_times (checked under SpecScan).           *)
(***************************************************************************)
Emitted == {<<result[k].encounter_block, result[k].recorded_dttm>> : k \in DOMAIN result}

\* the rows of encounter e recorded within [t - w, t + w], ends included
InClosedWindow(e, t, w) ==
    {i \in DOMAIN vent :
        /\ vent[i].encounter_block = e
        /\ vent[i].recorded_dttm >= t - w
        /\ vent[i].recorded_dttm <= t + w}

Qualifies(e, t, w) ==
    /\ \E i \in DOMAIN vent :
          vent[i].encounter_block = e /\ vent[i].recorded_dttm = t
    /\ \E i \in InClosedWindow(e, t, w) : vent[i].device_category = "IMV"
    /\ \E i \in InClosedWindow(e, t, w) : vent[i].mode_category # None
    /\ \E i \in InClosedWindow(e, t, w) : vent[i].fio2_set # None
    /\ \E i \in InClosedWindow(e, t, w) : vent[i].peep_set # None

\* C1: a pair (encounter_block, recorded_dttm) is returned if and only if
\* it is the timestamp of a row of that encounter and the rows of that
\* encounter within the closed window around it hold an IMV row, a row with
\* a mode, a row with an FiO2 and a row with a PEEP.
C1_WindowScanner ==
    pc = "done" =>
        /\ Emitted \subseteq Encounters \X Times
        /\ \A e \in Encounters, t \in Times :
              (<<e, t>> \in Emitted) <=> Qualifies(e, t, time_window)

\* C1 witness: a returned timestamp whose only IMV rows in the window lie
\* exactly time_window away, the other signals coming from other rows.
C1_Witness ==
    /\ pc = "done"
    /\ time_window > 0
    /\ \E k \in DOMAIN result :
          LET e == result[k].encounter_block
              t == result[k].recorded_dttm
              imv == {i \in InClosedWindow(e, t, time_window) :
                         vent[i].device_category = "IMV"}
          IN  /\ imv # {}
              /\ \A i \in imv :
                    /\ vent[i].recorded_dttm \in {t - time_window, t + time_window}
                    /\ vent[i].mode_category = None

\* C6: the returned pairs are strictly ascending by (encounter_block,
\* recorded_dttm): sorted, and no pair twice.
C6_DistinctSorted ==
    pc = "done" =>
        \A i, j \in DOMAIN result :
            i < j => LexLt(KeyOf(result[i], KeyEncRecorded), KeyOf(result[j], KeyEncRecorded))

\* C6 witness: two rows share a returned timestamp, and the input lists a
\* later returned timestamp before an earlier one.
C6_Witness ==
    /\ pc = "done"
    /\ Len(result) >= 2
    /\ \E i, j \in DOMAIN vent :
          /\ i < j
          /\ KeyOf(vent[i], KeyEncRecorded) = KeyOf(vent[j], KeyEncRecorded)
          /\ <<vent[i].encounter_block, vent[i].recorded_dttm>> \in Emitted
    /\ \E i, j \in DOMAIN vent :
          /\ i < j
          /\ LexLt(KeyOf(vent[j], KeyEncRecorded), KeyOf(vent[i], KeyEncRecorded))
          /\ <<vent[i].encounter_block, vent[i].recorded_dttm>> \in Emitted
          /\ <<vent[j].encounter_block, vent[j].recorded_dttm>> \in Emitted

HasAllFour(r) ==
    /\ r.device_category = "IMV"
    /\ r.mode_category # None
    /\ r.fio2_set # None
    /\ r.peep_set # None

\* C7: every pair returned for time_window is returned for every larger
\* window too, and a row that carries all four signals is returned for
\* every window.
C7_Monotone ==
    pc = "done" =>
        /\ \A w2 \in time_window..(MaxWindow + 1) :
              \E larger \in {Query(vent, w2)} :
                  \A k \in DOMAIN result :
                      \E m \in DOMAIN larger : larger[m] = result[k]
        /\ \A i \in DOMAIN vent :
              HasAllFour(vent[i]) =>
                  <<vent[i].encounter_block, vent[i].recorded_dttm>> \in Emitted

\* C7 witness: a non-empty result that a larger window strictly extends.
C7_Witness ==
    /\ pc = "done"
    /\ result # <<>>
    /\ Len(Query(vent, time_window + 1)) > Len(result)

(***************************************************************************)
(* Properties of stitch_icu_stays (checked under SpecStitch).              *)
(***************************************************************************)
SameEncounter(a, b) == a.encounter_block = b.encounter_block

\* row i of icu_block is followed by a row of its encounter that starts
\* less than gap_hours after row i ends
LinkedToNext(i) ==
    /\ i + 1 \in DOMAIN icu_block
    /\ SameEncounter(icu_block[i], icu_block[i + 1])
    /\ icu_block[i].out_dttm # NaT
    /\ icu_block[i + 1].in_dttm - icu_block[i].out_dttm < gap_hours

RetainedRows == {r \in {adt_df[i] : i \in DOMAIN adt_df} : IcuMask(r)}

InputColumns(r) ==
    AdtRow(r.encounter_block, r.in_dttm, r.out_dttm,
           r.location_category, r.location_type)

NoNullTimestamp(r) == r.in_dttm # NaT /\ r.out_dttm # NaT

\* C3 (as claimed, for gap_hours > 0 and inputs without null timestamps):
\* of two returned rows of an encounter, the one of lower icu_rank starts
\* strictly earlier and ends no later than the other starts.
C3_NonOverlap ==
    (pc = "done" /\ gap_hours > 0 /\ \A i \in DOMAIN adt_df : NoNullTimestamp(adt_df[i])) =>
        \A i, j \in DOMAIN icu_adt_final :
            (/\ SameEncounter(icu_adt_final[i], icu_adt_final[j])
             /\ icu_adt_final[i].icu_rank < icu_adt_final[j].icu_rank) =>
                /\ icu_adt_final[i].in_dttm < icu_adt_final[j].in_dttm
                /\ icu_adt_final[i].out_dttm <= icu_adt_final[j].in_dttm

\* C4 (as claimed): the returned frame has one row per (encounter_block,
\* icu_group).
C4_OneRowPerGroup ==
    pc = "done" =>
        \A i, j \in DOMAIN icu_adt_final :
            i < j => KeyOf(icu_adt_final[i], KeyEncGroup) # KeyOf(icu_adt_final[j], KeyEncGroup)

RanksOf(e) ==
    {icu_adt_final[i].icu_rank :
        i \in {k \in DOMAIN icu_adt_final : icu_adt_final[k].encounter_block = e}}

GroupsOf(e) ==
    {icu_adt_final[i].icu_group :
        i \in {k \in DOMAIN icu_adt_final : icu_adt_final[k].encounter_block = e}}

\* C5: the icu_rank values of an encounter are exactly 1..k, k being the
\* number of its icu_group values.
C5_RankDensity ==
    pc = "done" =>
        \A e \in Encounters : RanksOf(e) = 1..Cardinality(GroupsOf(e))

\* C5 witness: both encounters are returned, the second with two groups.
C5_Witness ==
    /\ pc = "done"
    /\ GroupsOf(1) # {}
    /\ Cardinality(GroupsOf(2)) >= 2

\* the rows of icu_block in the group of the returned row k
GroupMembers(k) ==
    {j \in DOMAIN icu_block :
        KeyOf(icu_block[j], KeyEncGroup) = KeyOf(icu_adt_final[k], KeyEncGroup)}

MaxOf(S) == CHOOSE x \in S : \A y \in S : x >= y

\* the member with the latest out_dttm, the last in rank order of them
LatestOutMember(m) ==
    LET outs == {icu_block[j].out_dttm : j \in m}
    IN  MaxOf({j \in m : icu_block[j].out_dttm = MaxOf(outs)})

\* C8 (as claimed): location_type is that of the member row with the latest
\* out_dttm of the group.
C8_LatestOut ==
    pc = "done" =>
        \A k \in DOMAIN icu_adt_final :
            icu_adt_final[k].location_type
                = icu_block[LatestOutMember(GroupMembers(k))].location_type

\* C8 (amended): location_type is that of the last member row, in rank
\* order, whose location_type is not null; it is null if there is none.
C8_LastInRankOrder ==
    pc = "done" =>
        \A k \in DOMAIN icu_adt_final :
            LET nn == {j \in GroupMembers(k) : icu_block[j].location_type # None}
            IN  icu_adt_final[k].location_type
                    = IF nn = {} THEN None ELSE icu_block[MaxOf(nn)].location_type

\* C8 witness: a group whose last member in rank order is not the member
\* with the latest out_dttm, the two of different location types.
C8_Witness ==
    /\ pc = "done"
    /\ \E k \in DOMAIN icu_adt_final :
          LET m == GroupMembers(k)
          IN  /\ \A j \in m : icu_block[j].out_dttm # NaT
              /\ \A j \in m : icu_block[j].location_type # None
              /\ LatestOutMember(m) # MaxOf(m)
              /\ icu_block[LatestOutMember(m)].location_type
                    # icu_block[MaxOf(m)].location_type

RECURSIVE SelectRows(_, _, _)
SelectRows(s, S, i) ==
    IF i > Len(s) THEN <<>>
    ELSE IF i \in S THEN <<s[i]>> \o SelectRows(s, S, i + 1)
         ELSE SelectRows(s, S, i + 1)

\* the rows of frame s that belong to encounter e, in order
OfEncounter(s, e) ==
    SelectRows(s, {i \in DOMAIN s : s[i].encounter_block = e}, 1)

\* C9 (as claimed): the returned rows of an encounter are, in every column,
\* the rows returned for the encounter's partition alone.
C9_Independent ==
    pc = "done" =>
        \A e \in Encounters :
            \E part \in {OfEncounter(adt_df, e)} :
                OfEncounter(icu_adt_final, e) = Stitched(part, gap_hours)

\* the number of rows of icu_block of the encounters sorting before e
Offset(e) ==
    Cardinality({i \in DOMAIN icu_block : icu_block[i].encounter_block < e})

ShiftGroup(s, d) ==
    [i \in DOMAIN s |-> [s[i] EXCEPT !.icu_group = s[i].icu_group + d]]

\* C9 (amended): the returned rows of an encounter are the rows returned
\* for its partition alone in icu_rank, in_dttm, out_dttm and location_type,
\* and their icu_group is that of the partition alone plus the number of
\* retained rows of the encounters that sort before it.
C9_IndependentUpToGroupOffset ==
    pc = "done" =>
        \A e \in Encounters :
            \E part \in {OfEncounter(adt_df, e)} :
                OfEncounter(icu_adt_final, e)
                    = ShiftGroup(Stitched(part, gap_hours), Offset(e))

\* C9 witness: both encounters are returned, so the second one's group
\* numbers are shifted.
C9_Witness ==
    /\ pc = "done"
    /\ OfEncounter(icu_adt_final, 2) # <<>>
    /\ Offset(2) > 0

RECURSIVE WithoutNullTimestamps(_)
WithoutNullTimestamps(s) ==
    IF s = <<>> THEN <<>>
    ELSE IF NoNullTimestamp(Head(s))
         THEN <<Head(s)>> \o WithoutNullTimestamps(Tail(s))
         ELSE WithoutNullTimestamps(Tail(s))

\* C10 (as claimed): the returned frame is the one returned for the input
\* without its rows of null in_dttm or out_dttm.
C10_NullRowsExcluded ==
    pc = "done" =>
        \E kept \in {WithoutNullTimestamps(adt_df)} :
            icu_adt_final = Stitched(kept, gap_hours)

=============================================================================
